---- MODULE Spec2Model ----
(***************************************************************************)
(* Model of gpio_calculator.py: the RockchipGPIOCalculator codec           *)
(* (gpio_name_to_number, gpio_number_to_name, calculate_gpio_info,         *)
(* print_gpio_info) and the command-line driver main().                    *)
(*                                                                         *)
(* A Python str is a sequence of one-character strings, so that split,     *)
(* replace, indexing, int() and formatting are computed character by       *)
(* character.  Text printed to stdout and exception messages are TLA+      *)
(* strings built by concatenation.                                         *)
(***************************************************************************)
EXTENDS Integers, Sequences, FiniteSets, TLC

VARIABLES
    self,         \* the calculator object under call: its two fields
    arg,          \* the argument of the library call
    op,           \* which method was called on arg ("none" before the call)
    ret,          \* what the call returned or raised
    back,         \* what the inverse conversion returned or raised on ret
    argv,         \* sys.argv of a run of main()
    pc,           \* position of main()
    gpio_number,  \* local gpio_number of main
    exc,          \* the ValueError in flight in the try block of main
    stdout,       \* the lines printed so far
    exit_status   \* the process exit status

vars == << self, arg, op, ret, back, argv, pc, gpio_number, exc, stdout, exit_status >>
libVars == << self, arg, op, ret, back >>
cliVars == << argv, pc, gpio_number, exc, stdout, exit_status >>

----------------------------------------------------------------------------
(* Bounds of the model. *)

MaxBank == 2
MaxPin == 9
MaxNumber == 70
MaxBankSize == 33
MaxGroupSize == 2

----------------------------------------------------------------------------
(* Characters: ord(), chr(), str.upper() on the printable ASCII range,      *)
(* code points 32 to 126 in order.  The grave accent (code point 96), which *)
(* a string of this language cannot hold, is written "<96>".               *)

AsciiTable ==
    << " ", "!", "\"", "#", "$", "%", "&", "'", "(", ")", "*", "+", ",", "-", ".", "/",
       "0", "1", "2", "3", "4", "5", "6", "7", "8", "9", ":", ";", "<", "=", ">", "?",
       "@", "A", "B", "C", "D", "E", "F", "G", "H", "I", "J", "K", "L", "M", "N", "O",
       "P", "Q", "R", "S", "T", "U", "V", "W", "X", "Y", "Z", "[", "\\", "]", "^", "_",
       "<96>", "a", "b", "c", "d", "e", "f", "g", "h", "i", "j", "k", "l", "m", "n", "o",
       "p", "q", "r", "s", "t", "u", "v", "w", "x", "y", "z", "{", "|", "}", "~" >>

OrdTable ==
    [c \in {AsciiTable[i] : i \in 1..Len(AsciiTable)} |->
        31 + (CHOOSE i \in 1..Len(AsciiTable) : AsciiTable[i] = c)]

\* ord(c)
Ord(c) == OrdTable[c]

\* chr(n), for a code point of the table
Chr(n) == AsciiTable[n - 31]

\* c.upper() for one character: a-z map to A-Z, every other character to itself
Upper(c) == IF Ord(c) >= Ord("a") /\ Ord(c) <= Ord("z") THEN Chr(Ord(c) - 32) ELSE c

IsDigit(c) == Ord(c) >= Ord("0") /\ Ord(c) <= Ord("9")

\* The text of a str, for printing and for exception messages.
RECURSIVE Text(_)
Text(s) == IF s = << >> THEN "" ELSE s[1] \o Text(Tail(s))

----------------------------------------------------------------------------
(* Python built-ins used by the codec. *)

\* s.split(sep), sep one character: the parts between the separators
RECURSIVE StrSplit(_, _)
StrSplit(s, sep) ==
    IF \A i \in 1..Len(s) : s[i] /= sep
    THEN << s >>
    ELSE LET i == CHOOSE k \in 1..Len(s) : s[k] = sep /\ \A j \in 1..(k - 1) : s[j] /= sep
         IN  << SubSeq(s, 1, i - 1) >> \o StrSplit(SubSeq(s, i + 1, Len(s)), sep)

\* s.replace(old, new): every non-overlapping occurrence, left to right
RECURSIVE StrReplace(_, _, _)
StrReplace(s, old, new) ==
    IF s = << >> THEN << >>
    ELSE IF Len(old) <= Len(s) /\ SubSeq(s, 1, Len(old)) = old
    THEN new \o StrReplace(SubSeq(s, Len(old) + 1, Len(s)), old, new)
    ELSE << s[1] >> \o StrReplace(Tail(s), old, new)

\* s.startswith(prefix)
StartsWith(s, prefix) == Len(prefix) <= Len(s) /\ SubSeq(s, 1, Len(prefix)) = prefix

\* s.strip(), as int() applies it (the only whitespace of the table is the space)
RECURSIVE StrStrip(_)
StrStrip(s) ==
    IF s = << >> THEN s
    ELSE IF s[1] = " " THEN StrStrip(Tail(s))
    ELSE IF s[Len(s)] = " " THEN StrStrip(SubSeq(s, 1, Len(s) - 1))
    ELSE s

\* The digits of an int() literal: digits, single underscores only between digits.
IsDigitGroup(s) ==
    /\ s /= << >>
    /\ IsDigit(s[1])
    /\ IsDigit(s[Len(s)])
    /\ \A i \in 1..Len(s) : IsDigit(s[i]) \/ s[i] = "_"
    /\ \A i \in 1..(Len(s) - 1) : ~(s[i] = "_" /\ s[i + 1] = "_")

RECURSIVE DigitsValue(_, _)
DigitsValue(s, acc) ==
    IF s = << >> THEN acc
    ELSE IF s[1] = "_" THEN DigitsValue(Tail(s), acc)
    ELSE DigitsValue(Tail(s), acc * 10 + (Ord(s[1]) - Ord("0")))

\* int(s) for a str s: surrounding whitespace, one optional sign, base-10 digits;
\* anything else raises ValueError
PyInt(s) ==
    LET t == StrStrip(s)
        signed == t /= << >> /\ t[1] \in {"+", "-"}
        digits == IF signed THEN Tail(t) ELSE t
    IN  IF IsDigitGroup(digits)
        THEN [ok |-> TRUE,
              val |-> IF signed /\ t[1] = "-" THEN 0 - DigitsValue(digits, 0)
                      ELSE DigitsValue(digits, 0)]
        ELSE [ok |-> FALSE, val |-> 0]

\* str(n) / f"{n}" for an int
RECURSIVE DecDigits(_)
DecDigits(n) ==
    IF n < 10 THEN << Chr(Ord("0") + n) >>
    ELSE DecDigits(n \div 10) \o << Chr(Ord("0") + (n % 10)) >>

PyStr(n) == IF n < 0 THEN << "-" >> \o DecDigits(0 - n) ELSE DecDigits(n)

----------------------------------------------------------------------------
(* Values, results and exceptions. *)

IntVal(n) == [type |-> "int", val |-> n]
FloatVal(n) == [type |-> "float", val |-> n]
StrVal(s) == [type |-> "str", val |-> s]

IsInstanceInt(v) == v.type = "int"

None == [kind |-> "none"]
Return(v) == [kind |-> "return", val |-> v]
Raise(type, msg) == [kind |-> "raise", type |-> type, msg |-> msg]

Returned(r) == r.kind = "return"
Raised(r) == r.kind = "raise"

GPIO == << "G", "P", "I", "O" >>

FormatErrorMsg(gpio_name) ==
    "Invalid GPIO name format: " \o Text(gpio_name)
        \o ". Expected format: GPIO<bank>_<group><pin> (e.g., GPIO0_A3)"

RangeErrorMsg == "GPIO number must be a positive integer."

\* __init__
Calculator(gpio_bank_size, gpio_group_size) ==
    [gpio_bank_size |-> gpio_bank_size, gpio_group_size |-> gpio_group_size]

DefaultCalculator == Calculator(32, 8)

----------------------------------------------------------------------------
(* The codec. *)

\* GroupOffset without the upper(): a lower-case group letter is not folded
GroupOffset_no_upper(slf, group) == (Ord(group) - Ord("A")) * slf.gpio_group_size

\* (ord(group.upper()) - ord("A")) * self.gpio_group_size
GroupOffset(slf, group) == (Ord(Upper(group)) - Ord("A")) * slf.gpio_group_size

\* gpio_name_to_number with the bank multiplied by the group size
gpio_name_to_number_bank_by_group_size(slf, gpio_name) ==
    LET parts == StrSplit(gpio_name, "_")
        failed == Raise("ValueError", FormatErrorMsg(gpio_name))
    IN  IF Len(parts) /= 2 THEN failed
        ELSE LET bank == PyInt(StrReplace(parts[1], GPIO, << >>))
             IN  IF ~bank.ok \/ parts[2] = << >> THEN failed
                 ELSE LET pin == PyInt(Tail(parts[2]))
                      IN  IF ~pin.ok THEN failed
                          ELSE Return((bank.val * slf.gpio_group_size)
                                          + GroupOffset(slf, parts[2][1]) + pin.val)

\* gpio_name_to_number: the unpacking of split on the underscore needs exactly two parts
\* (ValueError), int() raises ValueError, pin_part[0] raises IndexError on an
\* empty part; all are re-raised as the format ValueError.
gpio_name_to_number(slf, gpio_name) ==
    LET parts == StrSplit(gpio_name, "_")
        failed == Raise("ValueError", FormatErrorMsg(gpio_name))
    IN  IF Len(parts) /= 2 THEN failed
        ELSE LET bank_part == parts[1]
                 pin_part == parts[2]
                 bank == PyInt(StrReplace(bank_part, GPIO, << >>))
             IN  IF ~bank.ok THEN failed
                 ELSE IF pin_part = << >> THEN failed
                 ELSE LET group == pin_part[1]
                          pin == PyInt(Tail(pin_part))
                      IN  IF ~pin.ok THEN failed
                          ELSE Return((bank.val * slf.gpio_bank_size)
                                          + GroupOffset(slf, group) + pin.val)

\* f"GPIO{bank}_{group}{pin_in_group}"
FormatName(bank, group, pin_in_group) ==
    GPIO \o PyStr(bank) \o << "_", group >> \o PyStr(pin_in_group)

\* gpio_number_to_name with the quotient and the remainder by the group size swapped
gpio_number_to_name_swapped(slf, v) ==
    IF ~IsInstanceInt(v) \/ v.val < 0 THEN Raise("ValueError", RangeErrorMsg)
    ELSE LET bank == v.val \div slf.gpio_bank_size
             pin_in_bank == v.val % slf.gpio_bank_size
             group_index == pin_in_bank % slf.gpio_group_size
             pin_in_group == pin_in_bank \div slf.gpio_group_size
         IN  Return(GPIO \o PyStr(bank) \o << "_", Chr(Ord("A") + group_index) >>
                        \o PyStr(pin_in_group))

gpio_number_to_name(slf, v) ==
    IF ~IsInstanceInt(v) \/ v.val < 0 THEN Raise("ValueError", RangeErrorMsg)
    ELSE LET bank == v.val \div slf.gpio_bank_size
             pin_in_bank == v.val % slf.gpio_bank_size
             group_index == pin_in_bank \div slf.gpio_group_size
             pin_in_group == pin_in_bank % slf.gpio_group_size
             group == Chr(Ord("A") + group_index)
         IN  Return(FormatName(bank, group, pin_in_group))

\* gpio_number * 4 as the unbounded Python int it is, held in two 30-bit digits
\* (value = hi * 2^30 + lo): the product passes the 32-bit integers of TLC.
RegisterOffset(n) == [lo |-> (n % (2^28)) * 4, hi |-> n \div (2^28)]

HexTable ==
    << "0", "1", "2", "3", "4", "5", "6", "7", "8", "9", "A", "B", "C", "D", "E", "F" >>

RECURSIVE HexDigits(_)
HexDigits(n) ==
    IF n < 16 THEN << HexTable[n + 1] >>
    ELSE HexDigits(n \div 16) \o << HexTable[(n % 16) + 1] >>

\* zero padding on the left up to a minimum width; a longer text is kept whole
RECURSIVE ZeroPad(_, _)
ZeroPad(s, width) == IF Len(s) >= width THEN s ELSE ZeroPad(<< "0" >> \o s, width)

\* f"{x:X}" of a two-digit value: the low 28 bits are 7 hex digits
HexOfOffset(x) ==
    LET low == x.lo % (2^28)
        top == (x.hi * 4) + (x.lo \div (2^28))
    IN  IF top = 0 THEN HexDigits(low)
        ELSE HexDigits(top) \o ZeroPad(HexDigits(low), 7)

\* FormatHex08X with the format 08x: lower-case digits
FormatHex08X_lowercase(x) ==
    LET upper == ZeroPad(HexOfOffset(x), 8)
    IN  << "0", "x" >>
            \o [i \in 1..Len(upper) |->
                   IF Ord(upper[i]) >= Ord("A") THEN Chr(Ord(upper[i]) + 32) ELSE upper[i]]

\* f"0x{register_offset:08X}"
FormatHex08X(x) == << "0", "x" >> \o ZeroPad(HexOfOffset(x), 8)

\* f"{x}" of a two-digit value: 2^30 = 10737 * 10^5 + 41824
DecOfOffset(x) ==
    LET t == (x.hi * 41824) + x.lo
        high == (x.hi * 10737) + (t \div 100000)
        low == t % 100000
    IN  IF high = 0 THEN PyStr(low)
        ELSE PyStr(high) \o ZeroPad(PyStr(low), 5)

\* calculate_gpio_info with the test gpio_number <= 0: zero is rejected
calculate_gpio_info_rejects_zero(slf, v) ==
    IF ~IsInstanceInt(v) \/ v.val <= 0 THEN Raise("ValueError", RangeErrorMsg)
    ELSE Return(("GPIO Number" :> v.val)
             @@ ("GPIO Bank" :> v.val \div slf.gpio_bank_size)
             @@ ("Pin Number" :> v.val % slf.gpio_bank_size)
             @@ ("Register Offset (hex)" :> FormatHex08X(RegisterOffset(v.val)))
             @@ ("Register Offset (dec)" :> RegisterOffset(v.val)))

calculate_gpio_info(slf, v) ==
    IF ~IsInstanceInt(v) \/ v.val < 0 THEN Raise("ValueError", RangeErrorMsg)
    ELSE LET gpio_bank == v.val \div slf.gpio_bank_size
             pin_number == v.val % slf.gpio_bank_size
             register_offset == RegisterOffset(v.val)
         IN  Return(("GPIO Number" :> v.val)
                 @@ ("GPIO Bank" :> gpio_bank)
                 @@ ("Pin Number" :> pin_number)
                 @@ ("Register Offset (hex)" :> FormatHex08X(register_offset))
                 @@ ("Register Offset (dec)" :> register_offset))

\* print_gpio_info: the lines it prints, or the exception of calculate_gpio_info
\* (raised before anything is printed)
print_gpio_info(slf, v) ==
    LET r == calculate_gpio_info(slf, v)
    IN  IF Raised(r) THEN r
        ELSE LET gpio_info == r.val
             IN  Return(<< "GPIO Number: " \o Text(PyStr(gpio_info["GPIO Number"])),
                           "GPIO Bank: " \o Text(PyStr(gpio_info["GPIO Bank"])),
                           "Pin Number: " \o Text(PyStr(gpio_info["Pin Number"])),
                           "Register Offset (hex): "
                               \o Text(gpio_info["Register Offset (hex)"]),
                           "Register Offset (dec): "
                               \o Text(DecOfOffset(gpio_info["Register Offset (dec)"])) >>)

----------------------------------------------------------------------------
(* The inputs the calls are made on. *)

\* Calculator(gpio_bank_size, gpio_group_size): the default and small sizes
Configs ==
    {DefaultCalculator}
        \cup {Calculator(b, g) : b \in 1..MaxBankSize, g \in 1..MaxGroupSize}

GroupLetters == {Chr(c) : c \in Ord("A")..Ord("Z")}
LowerLetters == {"a", "d", "z"}

\* "GPIO<bank>_<group><pin>" with decimal bank and pin and a letter as group
WellFormedNames ==
    {FormatName(b, g, q) :
        b \in 0..MaxBank, g \in GroupLetters \cup LowerLetters, q \in 0..MaxPin}
        \cup {GPIO \o << "0" >> \o PyStr(b) \o << "_", g, "0" >> \o PyStr(q) :
                b \in 0..1, g \in {"B", "c"}, q \in {3, 7}}

\* texts in the place of "GPIO<bank>"
OddBankTexts ==
    { << >>, GPIO, GPIO \o << "A" >>, << "1" >>, GPIO \o GPIO \o << "1" >>,
      << "1" >> \o GPIO, GPIO \o << "-", "1" >>, GPIO \o << "+", "1" >>,
      GPIO \o << " ", "1" >>, GPIO \o << "1", "x" >>, << "g", "p", "i", "o", "1" >>,
      << "G", "P" >> \o GPIO \o << "I", "O", "1" >>, << "-", "2" >> }

\* texts in the place of "<group>"
OddGroupTexts == { << >>, << "3" >>, << "0" >>, << "[" >>, << "@" >>, << "-" >>, << "A", "B" >> }

\* texts in the place of "<pin>"
OddPinTexts ==
    { << >>, << "x" >>, << "-", "5" >>, << "-", "4", "0" >>, << "+", "2" >>,
      << " ", "3" >>, << "1", "C" >>, << "1", "2" >> }

OddNames ==
    {bt \o << "_", g >> \o PyStr(q) : bt \in OddBankTexts, g \in {"A", "c"}, q \in {0, 1}}
        \cup {GPIO \o PyStr(b) \o << "_" >> \o gt \o PyStr(q) :
                b \in {0, 1}, gt \in OddGroupTexts, q \in {0, 1}}
        \cup {GPIO \o PyStr(b) \o << "_", g >> \o pt :
                b \in {0, 1}, g \in {"A", "C", "3"}, pt \in OddPinTexts}
        \cup {GPIO \o PyStr(b) \o sep \o << g >> \o PyStr(q) :
                b \in {0, 1}, sep \in { << >>, << "_", "_" >>, << "-" >> },
                g \in {"A", "C"}, q \in {0, 1}}
        \cup {bt \o << "_" >> \o gt \o pt :
                bt \in {GPIO \o << "A" >>, << >>}, gt \in { << >>, << "3" >> },
                pt \in { << >>, << "x" >> }}
        \cup { GPIO \o << "1", "_", "C", "1", "_" >>, << "_" >> \o GPIO \o << "1", "_", "C", "1" >>,
               GPIO \o << "1", "_", "C", "_", "1" >>, << >>, << "_" >> }

NameInputs == WellFormedNames \cup OddNames

\* gpio_number * 4 reaches 2^32 at 2^30
BigNumbers == {(2^30) - 1, 2^30, (2^30) + 17}

NumberInputs ==
    {IntVal(n) : n \in ((0 - 3)..MaxNumber) \cup BigNumbers}
        \cup {FloatVal(n) : n \in {0 - 1, 0, 49}}

----------------------------------------------------------------------------
(* Library calls: one call on a calculator, then the inverse conversion on *)
(* what it returned.                                                       *)

CliIdle ==
    /\ argv = << >>
    /\ pc = "idle"
    /\ gpio_number = 0
    /\ exc = None
    /\ stdout = << >>
    /\ exit_status = 0 - 1

Init ==
    /\ self \in Configs
    /\ \/ arg \in {StrVal(n) : n \in NameInputs}
       \/ arg \in NumberInputs
    /\ op = "none"
    /\ ret = None
    /\ back = None
    /\ CliIdle

GpioNameToNumber ==
    /\ op = "none"
    /\ arg.type = "str"
    /\ op' = "gpio_name_to_number"
    /\ ret' = gpio_name_to_number(self, arg.val)
    /\ UNCHANGED << self, arg, back, cliVars >>

GpioNumberToName ==
    /\ op = "none"
    /\ op' = "gpio_number_to_name"
    /\ ret' = gpio_number_to_name(self, arg)
    /\ UNCHANGED << self, arg, back, cliVars >>

CalculateGpioInfo ==
    /\ op = "none"
    /\ op' = "calculate_gpio_info"
    /\ ret' = calculate_gpio_info(self, arg)
    /\ UNCHANGED << self, arg, back, cliVars >>

\* gpio_number_to_name(gpio_name_to_number(name))
NameOfNumber ==
    /\ op = "gpio_name_to_number"
    /\ Returned(ret)
    /\ back = None
    /\ back' = gpio_number_to_name(self, IntVal(ret.val))
    /\ UNCHANGED << self, arg, op, ret, cliVars >>

\* gpio_name_to_number(gpio_number_to_name(number))
NumberOfName ==
    /\ op = "gpio_number_to_name"
    /\ Returned(ret)
    /\ back = None
    /\ back' = gpio_name_to_number(self, ret.val)
    /\ UNCHANGED << self, arg, op, ret, cliVars >>

Next ==
    \/ GpioNameToNumber
    \/ GpioNumberToName
    \/ CalculateGpioInfo
    \/ NameOfNumber
    \/ NumberOfName

Spec == Init /\ [][Next]_vars

----------------------------------------------------------------------------
(* main(): one run of the command line. *)

ProgramName ==
    << "g", "p", "i", "o", "_", "c", "a", "l", "c", "u", "l", "a", "t", "o", "r", ".", "p", "y" >>

\* texts given as GPIO_NUMBER
NumberTexts ==
    {PyStr(n) : n \in (0 - 3)..MaxNumber}
        \cup { << >>, << "a", "b", "c" >>, << "4", "_", "9" >>, << " ", "7" >>,
               << "+", "5" >>, << "3", ".", "5" >>, << "0", "4", "9" >>,
               << "4", "9", "_" >>, << "-" >>, << "g", "p", "i", "o", "1", "_", "C", "1" >> }

CliArgs == NameInputs \cup NumberTexts

Argvs ==
    { << ProgramName >> }
        \cup { << ProgramName, a >> : a \in CliArgs }
        \cup { << ProgramName, a, b >> : a \in {GPIO \o << "1", "_", "C", "1" >>, << "4", "9" >>},
                                        b \in { << "4", "9" >>, << >> } }

UsageLines ==
    << "Usage: python gpio_calculator.py <GPIO_NAME or GPIO_NUMBER>",
       "Example 1: python gpio_calculator.py GPIO1_C1",
       "Example 2: python gpio_calculator.py 49" >>

\* the message of the ValueError of int(input_value)
IntErrorMsg(s) == "invalid literal for int() with base 10: '" \o Text(s) \o "'"

LibIdle ==
    /\ self = DefaultCalculator
    /\ arg = None
    /\ op = "idle"
    /\ ret = None
    /\ back = None

MainInit ==
    /\ argv \in Argvs
    /\ pc = "start"
    /\ gpio_number = 0
    /\ exc = None
    /\ stdout = << >>
    /\ exit_status = 0 - 1
    /\ LibIdle

\* if len(sys.argv) != 2: usage and sys.exit(1); else input_value = sys.argv[1]
\* and gpio_calculator = RockchipGPIOCalculator()
input_value == argv[2]
gpio_calculator == DefaultCalculator

MainCheckArgs ==
    /\ pc = "start"
    /\ IF Len(argv) /= 2
       THEN /\ stdout' = stdout \o UsageLines
            /\ exit_status' = 1
            /\ pc' = "exited"
       ELSE /\ pc' = "try"
            /\ UNCHANGED << stdout, exit_status >>
    /\ UNCHANGED << argv, gpio_number, exc, libVars >>

\* the branch of the try block up to its first print
MainConvertName ==
    /\ pc = "try"
    /\ StartsWith(input_value, GPIO)
    /\ LET r == gpio_name_to_number(gpio_calculator, input_value)
       IN  IF Raised(r)
           THEN /\ exc' = r
                /\ pc' = "except"
                /\ UNCHANGED << gpio_number, stdout >>
           ELSE /\ gpio_number' = r.val
                /\ stdout' = Append(stdout, Text(input_value)
                                 \o " corresponds to GPIO number: " \o Text(PyStr(r.val)))
                /\ pc' = "print_info"
                /\ exc' = exc
    /\ UNCHANGED << argv, exit_status, libVars >>

MainConvertNumber ==
    /\ pc = "try"
    /\ ~StartsWith(input_value, GPIO)
    /\ LET n == PyInt(input_value)
           r == gpio_number_to_name(gpio_calculator, IntVal(n.val))
       IN  IF ~n.ok
           THEN /\ exc' = Raise("ValueError", IntErrorMsg(input_value))
                /\ pc' = "except"
                /\ UNCHANGED << gpio_number, stdout >>
           ELSE IF Raised(r)
           THEN /\ exc' = r
                /\ pc' = "except"
                /\ gpio_number' = n.val
                /\ stdout' = stdout
           ELSE /\ gpio_number' = n.val
                /\ stdout' = Append(stdout, "GPIO number " \o Text(PyStr(n.val))
                                 \o " corresponds to GPIO name: " \o Text(r.val))
                /\ pc' = "print_info"
                /\ exc' = exc
    /\ UNCHANGED << argv, exit_status, libVars >>

\* gpio_calculator.print_gpio_info(gpio_number), then the end of main
MainPrintInfo ==
    /\ pc = "print_info"
    /\ LET r == print_gpio_info(gpio_calculator, IntVal(gpio_number))
       IN  IF Raised(r)
           THEN /\ exc' = r
                /\ pc' = "except"
                /\ UNCHANGED << stdout, exit_status >>
           ELSE /\ stdout' = stdout \o r.val
                /\ exit_status' = 0
                /\ pc' = "exited"
                /\ exc' = exc
    /\ UNCHANGED << argv, gpio_number, libVars >>

\* except ValueError as e: print(f"Error: {e}"); sys.exit(1)
MainExcept ==
    /\ pc = "except"
    /\ stdout' = Append(stdout, "Error: " \o exc.msg)
    /\ exit_status' = 1
    /\ pc' = "exited"
    /\ UNCHANGED << argv, gpio_number, exc, libVars >>

MainNext ==
    \/ MainCheckArgs
    \/ MainConvertName
    \/ MainConvertNumber
    \/ MainPrintInfo
    \/ MainExcept

MainSpec == MainInit /\ [][MainNext]_vars

----------------------------------------------------------------------------
(* Vocabulary of the properties: the fields of a name read off its text,   *)
(* without the parsing of the codec.                                       *)

UpperAlphabet ==
    << "A", "B", "C", "D", "E", "F", "G", "H", "I", "J", "K", "L", "M",
       "N", "O", "P", "Q", "R", "S", "T", "U", "V", "W", "X", "Y", "Z" >>

LowerAlphabet ==
    << "a", "b", "c", "d", "e", "f", "g", "h", "i", "j", "k", "l", "m",
       "n", "o", "p", "q", "r", "s", "t", "u", "v", "w", "x", "y", "z" >>

DecimalDigits == << "0", "1", "2", "3", "4", "5", "6", "7", "8", "9" >>

InSeq(c, table) == \E i \in 1..Len(table) : table[i] = c
IndexIn(c, table) == (CHOOSE i \in 1..Len(table) : table[i] = c) - 1

IsGroupLetter(c) == InSeq(c, UpperAlphabet) \/ InSeq(c, LowerAlphabet)
LetterIndex(c) ==
    IF InSeq(c, UpperAlphabet) THEN IndexIn(c, UpperAlphabet) ELSE IndexIn(c, LowerAlphabet)

AllDecimal(s) == s /= << >> /\ \A i \in 1..Len(s) : InSeq(s[i], DecimalDigits)

RECURSIVE DecimalValue(_)
DecimalValue(s) ==
    IF s = << >> THEN 0
    ELSE (10 * DecimalValue(SubSeq(s, 1, Len(s) - 1))) + IndexIn(s[Len(s)], DecimalDigits)

Underscores(s) == {i \in 1..Len(s) : s[i] = "_"}
UnderscoreAt(s) == CHOOSE i \in Underscores(s) : TRUE
BankPart(s) == SubSeq(s, 1, UnderscoreAt(s) - 1)
PinPart(s) == SubSeq(s, UnderscoreAt(s) + 1, Len(s))
BankText(s) == SubSeq(BankPart(s), 5, Len(BankPart(s)))

\* "GPIO<bank>_<group><pin>": the literal GPIO, a decimal bank, one underscore,
\* one letter, a decimal pin
WellFormed(s) ==
    /\ Cardinality(Underscores(s)) = 1
    /\ StartsWith(BankPart(s), GPIO)
    /\ AllDecimal(BankText(s))
    /\ PinPart(s) /= << >>
    /\ IsGroupLetter(PinPart(s)[1])
    /\ AllDecimal(Tail(PinPart(s)))

NameBank(s) == DecimalValue(BankText(s))
NameGroup(s) == PinPart(s)[1]
NamePin(s) == DecimalValue(Tail(PinPart(s)))

\* a well-formed name as the formatter writes it: no leading zeros, upper case
Canonical(s) ==
    /\ WellFormed(s)
    /\ InSeq(NameGroup(s), UpperAlphabet)
    /\ s = FormatName(NameBank(s), NameGroup(s), NamePin(s))

CalledOnName == op = "gpio_name_to_number" /\ arg.type = "str"
CalledOnNumber(f) == op = f /\ arg.type = "int" /\ arg.val >= 0

----------------------------------------------------------------------------
(* C1 *)

\* Names in canonical form whose pin is inside the group and whose group is one
\* of the first groups letters.
RoundTripName(groups) ==
    /\ CalledOnName
    /\ self = DefaultCalculator
    /\ Canonical(arg.val)
    /\ NamePin(arg.val) < self.gpio_group_size
    /\ LetterIndex(NameGroup(arg.val)) < groups

\* C1 as stated: with the default configuration, for every bank, every group
\* letter A through Z and every pin below the group size,
\* gpio_number_to_name(gpio_name_to_number(name)) returns the same name.
C1_NameRoundTripAtoZ ==
    RoundTripName(26) => (Returned(ret) /\ (back = None \/ back = Return(arg.val)))

\* C1 as amended: with the default configuration, for every bank, every group
\* letter A through D (the four groups of a 32-pin bank) and every pin below
\* the group size, gpio_number_to_name(gpio_name_to_number(name)) returns the
\* same name.
C1_NameRoundTripAtoD ==
    RoundTripName(4) => (Returned(ret) /\ (back = None \/ back = Return(arg.val)))

C1_Witness ==
    /\ RoundTripName(4)
    /\ arg.val = GPIO \o << "1", "_", "C", "1" >>
    /\ ret = Return(49)
    /\ back = Return(arg.val)

----------------------------------------------------------------------------
(* C2 *)

MaxGroupIndex(slf) == (slf.gpio_bank_size - 1) \div slf.gpio_group_size

NumberRoundTrip == Returned(ret) /\ (back = None \/ back = Return(arg.val))

\* C2 as stated: for every configuration with positive sizes and every number
\* N >= 0, gpio_name_to_number(gpio_number_to_name(N)) returns N.
C2_NumberRoundTripAnyConfig ==
    CalledOnNumber("gpio_number_to_name") => NumberRoundTrip

\* C2 as amended: for every number N >= 0,
\* gpio_name_to_number(gpio_number_to_name(N)) returns N for the default
\* configuration and for every configuration with positive sizes whose largest
\* group index, (bankSize - 1) div groupSize, is at most 29 (group index 30 is
\* written as the underscore and 32 and above as lower-case letters).
C2_NumberRoundTripSmallGroups ==
    (CalledOnNumber("gpio_number_to_name") /\ MaxGroupIndex(self) <= 29) => NumberRoundTrip

C2_Witness ==
    /\ CalledOnNumber("gpio_number_to_name")
    /\ self = Calculator(30, 1)
    /\ arg.val = 59
    /\ ret = Return(GPIO \o << "1", "_", "^", "0" >>)
    /\ back = Return(59)

----------------------------------------------------------------------------
(* C3 *)

\* a text that is no integer literal: empty, or holding a character other than
\* a digit, a sign or a space
NonNumeric(s) ==
    \/ s = << >>
    \/ \E i \in 1..Len(s) : ~(InSeq(s[i], DecimalDigits) \/ s[i] \in {"+", "-", " "})

\* the bank text: the part before the underscore without the GPIO it holds
LooseBankText(s) == StrReplace(BankPart(s), GPIO, << >>)

Malformed(s) ==
    \/ Cardinality(Underscores(s)) /= 1
    \/ /\ Cardinality(Underscores(s)) = 1
       /\ \/ BankPart(s) = << >>
          \/ PinPart(s) = << >>
          \/ NonNumeric(LooseBankText(s))
          \/ NonNumeric(Tail(PinPart(s)))
          \/ ~IsGroupLetter(PinPart(s)[1])

\* C3: gpio_name_to_number raises the format error, and returns no number, on a
\* name with no underscore, with more than one underscore, with a non-numeric
\* bank text, with an empty part, with a non-numeric pin suffix or with a group
\* character that is not a letter ("GPIOA_3", "GPIO1C1", "GPIO1_31").
C3_MalformedNamesRaise ==
    (CalledOnName /\ Malformed(arg.val))
        => ret = Raise("ValueError", FormatErrorMsg(arg.val))

----------------------------------------------------------------------------
(* C4 *)

\* the text before the single underscore is GPIO followed by a decimal bank
ExactBank(s) ==
    /\ Cardinality(Underscores(s)) = 1
    /\ StartsWith(BankPart(s), GPIO)
    /\ AllDecimal(BankText(s))

\* C4: gpio_name_to_number returns a number only for a name whose text before
\* the single underscore is the literal GPIO followed by a non-negative integer
\* literal, and every number it returns is non-negative.
C4_ReturnsOnlyOnExactPattern ==
    (CalledOnName /\ Returned(ret)) => (ExactBank(arg.val) /\ ret.val >= 0)

----------------------------------------------------------------------------
(* C5 *)

\* C5: on a well-formed name gpio_name_to_number returns
\* bank * bankSize + letterIndex(uppercase(group)) * groupSize + pin; the case
\* of the group letter does not matter and a pin at or above the group size is
\* added like any other.
C5_NameToNumberValue ==
    (CalledOnName /\ WellFormed(arg.val))
        => ret = Return((NameBank(arg.val) * self.gpio_bank_size)
                        + (LetterIndex(NameGroup(arg.val)) * self.gpio_group_size)
                        + NamePin(arg.val))

C5_Witness ==
    /\ CalledOnName
    /\ self = DefaultCalculator
    /\ arg.val = GPIO \o << "1", "_", "d", "9" >>
    /\ WellFormed(arg.val)
    /\ NamePin(arg.val) >= self.gpio_group_size
    /\ ret = Return(65)

----------------------------------------------------------------------------
(* C6 *)

\* C6: for N >= 0 gpio_number_to_name returns GPIO<bank>_<group><pinInGroup>
\* with bank = N div bankSize, pinInBank = N mod bankSize,
\* groupIndex = pinInBank div groupSize, pinInGroup = pinInBank mod groupSize
\* and group the character at A + groupIndex; 0 <= pinInGroup < groupSize, and
\* with the default configuration group is one of A, B, C, D.
C6_NumberToNameValue ==
    CalledOnNumber("gpio_number_to_name") =>
        LET bank == arg.val \div self.gpio_bank_size
            pinInBank == arg.val % self.gpio_bank_size
            groupIndex == pinInBank \div self.gpio_group_size
            pinInGroup == pinInBank % self.gpio_group_size
            group == IF groupIndex < 26 THEN UpperAlphabet[groupIndex + 1]
                     ELSE AsciiTable[groupIndex + 34]
        IN  /\ Returned(ret)
            /\ ret.val = GPIO \o PyStr(bank) \o << "_", group >> \o PyStr(pinInGroup)
            /\ 0 <= pinInGroup
            /\ pinInGroup < self.gpio_group_size
            /\ self = DefaultCalculator =>
                   /\ Canonical(ret.val)
                   /\ NameBank(ret.val) = bank
                   /\ NameGroup(ret.val) \in {"A", "B", "C", "D"}
                   /\ LetterIndex(NameGroup(ret.val)) = groupIndex
                   /\ NamePin(ret.val) = pinInGroup

C6_Witness ==
    /\ CalledOnNumber("gpio_number_to_name")
    /\ self = DefaultCalculator
    /\ arg.val = 49
    /\ ret = Return(GPIO \o << "1", "_", "C", "1" >>)

----------------------------------------------------------------------------
(* C7 *)

\* C7: gpio_number_to_name and calculate_gpio_info raise the ValueError
\* "GPIO number must be a positive integer." on every negative integer and on
\* every argument that is no integer, and return on every integer >= 0, zero
\* included.
C7_SharedPrecondition ==
    (op \in {"gpio_number_to_name", "calculate_gpio_info"}) =>
        IF arg.type = "int" /\ arg.val >= 0
        THEN Returned(ret)
        ELSE ret = Raise("ValueError", "GPIO number must be a positive integer.")

C7_Witness ==
    /\ op = "calculate_gpio_info"
    /\ arg.type = "int"
    /\ arg.val = 0
    /\ Returned(ret)

C7_WitnessNegative ==
    /\ op = "gpio_number_to_name"
    /\ arg.type = "int"
    /\ arg.val = 0 - 1
    /\ Raised(ret)

----------------------------------------------------------------------------
(* C8 *)

UpperHexDigits ==
    << "0", "1", "2", "3", "4", "5", "6", "7", "8", "9", "A", "B", "C", "D", "E", "F" >>

AllUpperHex(s) == s /= << >> /\ \A i \in 1..Len(s) : InSeq(s[i], UpperHexDigits)

\* the value of a hexadecimal text, in two 30-bit digits
RECURSIVE HexValue(_, _)
HexValue(s, acc) ==
    IF s = << >> THEN acc
    ELSE HexValue(Tail(s),
                  [lo |-> ((acc.lo % (2^26)) * 16) + IndexIn(s[1], UpperHexDigits),
                   hi |-> (acc.hi * 16) + (acc.lo \div (2^26))])

\* x, in two 30-bit digits, is 4 * n
IsFourTimes(x, n) ==
    /\ x.lo >= 0
    /\ x.lo < 2^30
    /\ x.hi >= 0
    /\ x.lo % 4 = 0
    /\ (x.hi * (2^28)) + (x.lo \div 4) = n
    /\ n < 2^28 => (x.hi = 0 /\ x.lo = 4 * n)

\* the record of calculate_gpio_info(N) but for the length of its hex text
InfoFields(info) ==
    LET hex == info["Register Offset (hex)"]
    IN  /\ info["GPIO Number"] = arg.val
        /\ info["GPIO Bank"] = arg.val \div self.gpio_bank_size
        /\ info["Pin Number"] = arg.val % self.gpio_bank_size
        /\ IsFourTimes(info["Register Offset (dec)"], arg.val)
        /\ Len(hex) > 2
        /\ SubSeq(hex, 1, 2) = << "0", "x" >>
        /\ AllUpperHex(SubSeq(hex, 3, Len(hex)))
        /\ HexValue(SubSeq(hex, 3, Len(hex)), [lo |-> 0, hi |-> 0])
               = info["Register Offset (dec)"]

\* C8 as stated: for N >= 0 calculate_gpio_info(N) returns GPIO Number = N,
\* GPIO Bank = N div bankSize, Pin Number = N mod bankSize, Register Offset
\* (dec) = 4 * N whatever the sizes, and Register Offset (hex) = 0x followed by
\* exactly 8 upper-case hexadecimal digits of the same value.
C8_InfoHexExactly8 ==
    CalledOnNumber("calculate_gpio_info") =>
        /\ Returned(ret)
        /\ InfoFields(ret.val)
        /\ Len(ret.val["Register Offset (hex)"]) = 10

\* C8 as amended: the same record, with Register Offset (hex) = 0x followed by
\* at least 8 upper-case hexadecimal digits of the same value: exactly 8,
\* zero-padded, when 4 * N < 2^32 (N < 2^30), and the longer unpadded text of
\* 4 * N from N = 2^30 on.
C8_InfoHexAtLeast8 ==
    CalledOnNumber("calculate_gpio_info") =>
        /\ Returned(ret)
        /\ InfoFields(ret.val)
        /\ LET hex == ret.val["Register Offset (hex)"]
           IN  /\ Len(hex) >= 10
               /\ (Len(hex) = 10) <=> (arg.val < 2^30)
               /\ Len(hex) > 10 => hex[3] /= "0"

C8_Witness ==
    /\ CalledOnNumber("calculate_gpio_info")
    /\ self = DefaultCalculator
    /\ arg.val = 49
    /\ Returned(ret)
    /\ ret.val["GPIO Bank"] = 1
    /\ ret.val["Pin Number"] = 17
    /\ ret.val["Register Offset (dec)"] = [lo |-> 196, hi |-> 0]
    /\ ret.val["Register Offset (hex)"]
           = << "0", "x", "0", "0", "0", "0", "0", "0", "C", "4" >>

----------------------------------------------------------------------------
(* C9 *)

NameRun == pc = "exited" /\ Len(argv) = 2 /\ StartsWith(argv[2], GPIO)

\* the result line and the five info lines of a name run that returned n
NameRunLines(n) ==
    << Text(argv[2]) \o " corresponds to GPIO number: " \o Text(PyStr(n)),
       "GPIO Number: " \o Text(PyStr(n)),
       "GPIO Bank: " \o Text(PyStr(n \div 32)),
       "Pin Number: " \o Text(PyStr(n % 32)),
       "Register Offset (hex): " \o Text(FormatHex08X(RegisterOffset(n))),
       "Register Offset (dec): " \o Text(PyStr(4 * n)) >>

\* C9: a run of main on an argument that starts with GPIO and on which
\* gpio_name_to_number returns N prints the result line, then the lines GPIO
\* Number, GPIO Bank, Pin Number, Register Offset (hex), Register Offset (dec),
\* and exits with status 0; it exits with status 1 only when
\* gpio_name_to_number raised.
C9_NamePathPrintsAndExitsZero ==
    NameRun =>
        LET r == gpio_name_to_number(DefaultCalculator, argv[2])
        IN  IF Returned(r)
            THEN exit_status = 0 /\ stdout = NameRunLines(r.val)
            ELSE exit_status = 1

----------------------------------------------------------------------------
(* C10 *)

\* C10: a run of main with one argument either prints a result line and the
\* five info lines and exits with status 0, or prints only an Error line and
\* exits with status 1; no run prints a result line and then the Error line.
C10_AllOrNothing ==
    (pc = "exited" /\ Len(argv) = 2) =>
        \/ exit_status = 0 /\ Len(stdout) = 6 /\ exc = None
        \/ exit_status = 1 /\ Raised(exc) /\ stdout = << "Error: " \o exc.msg >>

====
